---- MODULE Spec2Model ----
(***************************************************************************)
(* jotai-history-global: the diff/patch engine (diffUtils), the global     *)
(* history stack (historyManager), the tracked atom (atomWithHistory) and  *)
(* the undo/redo controller (useHistory).                                  *)
(*                                                                         *)
(* JavaScript values are tagged records:                                   *)
(*   undefined        [t |-> "undefined"]                                  *)
(*   null             [t |-> "null"]                                       *)
(*   a number n       [t |-> "number", n |-> n]                            *)
(*   an array         [t |-> "array",  items  |-> <<v1, ..., vk>>]         *)
(*   a plain object   [t |-> "object", fields |-> [key |-> value]]         *)
(* A Diff is a record with a "type" field, as in the source.  Array        *)
(* indices inside a diff are the 0-based JavaScript indices.               *)
(*                                                                         *)
(* === on two composites is reference identity.  Array elements in this    *)
(* model are primitives, and for such values createDiff returns null both  *)
(* for one reference and for two references with equal contents, so inside *)
(* the diff engine a composite is identified with its contents.  Where the *)
(* difference is visible (the default shouldTrack of a tracked atom) the   *)
(* write takes an explicit sameRef input.  NaN, the one value that is not  *)
(* === to itself, occurs on its own and never inside a composite.          *)
(***************************************************************************)
EXTENDS Integers, Sequences, FiniteSets, TLC

----------------------------------------------------------------------------
(* Values *)

undefined == [t |-> "undefined"]
null == [t |-> "null"]
Num(n) == [t |-> "number", n |-> n]
Arr(s) == [t |-> "array", items |-> s]
Obj(f) == [t |-> "object", fields |-> f]
\* the number NaN
NaN == [t |-> "NaN"]

\* a === b, for primitives and for composites identified with their contents
StrictEquals(a, b) == a = b /\ a # NaN

\* typeof v === 'object' (true of null, arrays and plain objects)
TypeofObject(v) == "t" \in DOMAIN v /\ v.t \in {"null", "array", "object"}

\* Array.isArray(v)
IsArray(v) == "t" \in DOMAIN v /\ v.t = "array"

\* !v : undefined, null, 0 and NaN are the falsy values of this universe
Falsy(v) == v = undefined \/ v = null \/ v = Num(0) \/ v = NaN

\* 'type' in d, for d an object
HasType(d) == "type" \in DOMAIN d

Max(a, b) == IF a >= b THEN a ELSE b
Min(a, b) == IF a <= b THEN a ELSE b

----------------------------------------------------------------------------
(* diffUtils *)

RECURSIVE createDiff(_, _)

\* createObjectDiff that diffs an added property against undefined instead
\* of storing its value
createObjectDiffDiffingAdded(oldObj, newObj) ==
  LET both == DOMAIN oldObj \cap DOMAIN newObj
      changedKeys == {k \in both : ~StrictEquals(newObj[k], oldObj[k])
                                   /\ createDiff(oldObj[k], newObj[k]) # null}
      changed == [k \in changedKeys |-> createDiff(oldObj[k], newObj[k])]
      added == [k \in DOMAIN newObj \ DOMAIN oldObj |->
                  createDiff(undefined, newObj[k])]
      deleted == DOMAIN oldObj \ DOMAIN newObj
  IN  IF changedKeys = {} /\ DOMAIN added = {} /\ deleted = {}
      THEN null
      ELSE [type |-> "object", changed |-> changed, added |-> added,
            deleted |-> deleted]

\* createObjectDiff(oldObj, newObj); the arguments are the field maps
createObjectDiff(oldObj, newObj) ==
  LET both == DOMAIN oldObj \cap DOMAIN newObj
      changedKeys == {k \in both : ~StrictEquals(newObj[k], oldObj[k])
                                   /\ createDiff(oldObj[k], newObj[k]) # null}
      changed == [k \in changedKeys |-> createDiff(oldObj[k], newObj[k])]
      added == [k \in DOMAIN newObj \ DOMAIN oldObj |-> newObj[k]]
      deleted == DOMAIN oldObj \ DOMAIN newObj
  IN  IF changedKeys = {} /\ DOMAIN added = {} /\ deleted = {}
      THEN null
      ELSE [type |-> "object", changed |-> changed, added |-> added,
            deleted |-> deleted]

\* the item createArrayDiff pushes for 0-based index i, if it pushes one
ArrayDiffItem(oldArray, newArray, i) ==
  IF i >= Len(oldArray)
  THEN [index |-> i, value |-> newArray[i + 1], added |-> TRUE, removed |-> FALSE]
  ELSE IF i >= Len(newArray)
  THEN [index |-> i, value |-> oldArray[i + 1], added |-> FALSE, removed |-> TRUE]
  ELSE [index |-> i, value |-> newArray[i + 1], added |-> FALSE, removed |-> FALSE]

\* createArrayDiff that walks the indices of the new array only
createArrayDiffUpToNew(oldArray, newArray) ==
  LET maxLen == Len(newArray)
      Differs(i) == i >= Len(oldArray) \/ i >= Len(newArray)
                    \/ ~StrictEquals(oldArray[i + 1], newArray[i + 1])
      all == [j \in 1..maxLen |-> ArrayDiffItem(oldArray, newArray, j - 1)]
      items == SelectSeq(all, LAMBDA it : Differs(it.index))
  IN  IF items # <<>> THEN [type |-> "array", items |-> items] ELSE null

\* createArrayDiff(oldArray, newArray); the arguments are the item sequences
createArrayDiff(oldArray, newArray) ==
  LET maxLen == Max(Len(oldArray), Len(newArray))
      Differs(i) == i >= Len(oldArray) \/ i >= Len(newArray)
                    \/ ~StrictEquals(oldArray[i + 1], newArray[i + 1])
      all == [j \in 1..maxLen |-> ArrayDiffItem(oldArray, newArray, j - 1)]
      items == SelectSeq(all, LAMBDA it : Differs(it.index))
  IN  IF items # <<>> THEN [type |-> "array", items |-> items] ELSE null

createDiff(oldValue, newValue) ==
  IF StrictEquals(oldValue, newValue) THEN null
  ELSE IF Falsy(oldValue) \/ Falsy(newValue)
          \/ ~TypeofObject(oldValue) \/ ~TypeofObject(newValue)
          \/ IsArray(oldValue) # IsArray(newValue)
  THEN [type |-> "value", before |-> oldValue, after |-> newValue]
  ELSE IF IsArray(oldValue) /\ IsArray(newValue)
  THEN createArrayDiff(oldValue.items, newValue.items)
  ELSE createObjectDiff(oldValue.fields, newValue.fields)

\* result.splice(index, 1)
SpliceRemove(s, index) ==
  IF index < Len(s)
  THEN SubSeq(s, 1, index) \o SubSeq(s, index + 2, Len(s))
  ELSE s

\* result.splice(index, 0, value)
SpliceInsert(s, index, value) ==
  LET at == Min(index, Len(s))
  IN  SubSeq(s, 1, at) \o <<value>> \o SubSeq(s, at + 1, Len(s))

\* result[index] = value; an index past the end leaves holes, which read
\* as undefined
SetIndex(s, index, value) ==
  [j \in 1..Max(Len(s), index + 1) |->
     IF j = index + 1 THEN value ELSE IF j <= Len(s) THEN s[j] ELSE undefined]

\* items.sort((a, b) => b.index - a.index): stable, descending by index
RECURSIVE SortByIndexDesc(_)
SortByIndexDesc(items) ==
  IF items = <<>> THEN <<>>
  ELSE LET rest == SortByIndexDesc(Tail(items))
           hd == Head(items)
           \* hd goes before the first element of rest with index <= hd.index
           before == {j \in 0..Len(rest) :
                        \A m \in 1..j : rest[m].index > hd.index}
           pos == CHOOSE j \in before : \A m \in before : m <= j
       IN  SubSeq(rest, 1, pos) \o <<hd>> \o SubSeq(rest, pos + 1, Len(rest))

RECURSIVE ApplyRemovals(_, _)
ApplyRemovals(result, removals) ==
  IF removals = <<>> THEN result
  ELSE ApplyRemovals(SpliceRemove(result, Head(removals).index), Tail(removals))

RECURSIVE ApplyAdditionsAndChanges(_, _)
ApplyAdditionsAndChanges(result, items) ==
  IF items = <<>> THEN result
  ELSE LET item == Head(items)
           next == IF item.added
                   THEN SpliceInsert(result, item.index, item.value)
                   ELSE IF ~item.removed /\ item.value # undefined
                   THEN SetIndex(result, item.index, item.value)
                   ELSE result
       IN  ApplyAdditionsAndChanges(next, Tail(items))

\* applyArrayDiff(arr, diff); arr is the item sequence
applyArrayDiff(arr, diff) ==
  LET removals == SortByIndexDesc(SelectSeq(diff.items, LAMBDA it : it.removed))
  IN  ApplyAdditionsAndChanges(ApplyRemovals(arr, removals), diff.items)

RECURSIVE applyDiff(_, _)

\* { ...arr }: the own keys of an array are its indices "0", "1", ...
SpreadArray(items) ==
  [k \in {ToString(j - 1) : j \in 1..Len(items)} |->
     items[CHOOSE j \in 1..Len(items) : ToString(j - 1) = k]]

\* applyObjectDiff(obj, diff); obj is the field map
applyObjectDiff(obj, diff) ==
  LET keys == (DOMAIN obj \cup DOMAIN diff.added) \ diff.deleted
  IN  [k \in keys |->
         IF k \in DOMAIN diff.added THEN diff.added[k]
         ELSE IF k \in DOMAIN diff.changed
         THEN applyDiff(obj[k], diff.changed[k])
         ELSE obj[k]]

applyDiff(value, diff) ==
  IF diff.type = "value" THEN diff.after
  ELSE IF diff.type = "array" /\ IsArray(value)
  THEN Arr(applyArrayDiff(value.items, diff))
  ELSE IF diff.type = "object" /\ value # null /\ TypeofObject(value)
  THEN Obj(applyObjectDiff(IF IsArray(value) THEN SpreadArray(value.items)
                                              ELSE value.fields, diff))
  ELSE value

\* thrown by reverseDiff: new Error('Unknown diff type')
UnknownDiffType == [error |-> "Unknown diff type"]

\* reverseDiff that hands back a delta it does not know instead of throwing
RECURSIVE reverseDiffLenient(_)
reverseDiffLenient(diff) ==
  IF diff.type = "value"
  THEN [type |-> "value", before |-> diff.after, after |-> diff.before]
  ELSE IF diff.type = "array"
  THEN [type |-> "array",
        items |-> [j \in 1..Len(diff.items) |->
                     [index |-> diff.items[j].index,
                      value |-> diff.items[j].value,
                      added |-> diff.items[j].removed,
                      removed |-> diff.items[j].added]]]
  ELSE IF diff.type = "object"
  THEN [type |-> "object",
        added |-> [k \in diff.deleted |-> undefined],
        deleted |-> DOMAIN diff.added,
        changed |-> [k \in DOMAIN diff.changed |->
                       reverseDiffLenient(diff.changed[k])]]
  ELSE diff

RECURSIVE reverseDiff(_)
reverseDiff(diff) ==
  IF diff.type = "value"
  THEN [type |-> "value", before |-> diff.after, after |-> diff.before]
  ELSE IF diff.type = "array"
  THEN [type |-> "array",
        items |-> [j \in 1..Len(diff.items) |->
                     [index |-> diff.items[j].index,
                      value |-> diff.items[j].value,
                      added |-> diff.items[j].removed,
                      removed |-> diff.items[j].added]]]
  ELSE IF diff.type = "object"
  THEN IF \E k \in DOMAIN diff.changed :
            reverseDiff(diff.changed[k]) = UnknownDiffType
       THEN UnknownDiffType
       ELSE [type |-> "object",
             added |-> [k \in diff.deleted |-> undefined],
             deleted |-> DOMAIN diff.added,
             changed |-> [k \in DOMAIN diff.changed |->
                            reverseDiff(diff.changed[k])]]
  ELSE UnknownDiffType

----------------------------------------------------------------------------
(* Bounds and the value universe *)

\* user writes to tracked atoms in one behaviour
MaxWrites == 3
\* groupOperations calls nested inside one another
MaxGroupDepth == 2

\* historyManager: DEFAULT_HISTORY_LIMIT
DEFAULT_HISTORY_LIMIT == 50
\* pushToHistory: Object.keys(diff.changed).length > 10
ComplexObjectKeys == 10
\* pushToHistory: diff.items.length > 20
ComplexArrayItems == 20
\* README: shouldTrack: (prev, next) => Math.abs(next - prev) > 10
ScoreStep == 10

\* ids of the tracked atoms
AtomIds == {"a", "b"}

\* the keys of the wide objects: one more than ComplexObjectKeys
WideKeys == {"k01", "k02", "k03", "k04", "k05", "k06", "k07", "k08", "k09",
             "k10", "k11"}

\* the values an atom of each TypeScript value type is written with
TypeValues(type) ==
  CASE type = "number" -> {undefined, Num(1), Num(2)}
    [] type = "counter" -> {Num(1), Num(2)}
    [] type = "score" -> {Num(1), Num(2), Num(20)}
    [] type = "array" -> {Arr(<<Num(1)>>), Arr(<<Num(2)>>), Arr(<<Num(1), Num(2)>>)}
    [] type = "object" -> {Obj(<<>>), Obj([a |-> Num(1)]), Obj([a |-> Num(2)])}
    [] type = "longArray" ->
         {Arr([j \in 1..(ComplexArrayItems + 1) |-> Num(n)]) : n \in 1..2}
         \cup {Arr([j \in 1..(ComplexArrayItems + 1) |->
                     IF j <= ComplexArrayItems THEN Num(2) ELSE Num(1)])}
    [] type = "wideObject" ->
         {Obj([k \in WideKeys |-> Num(n)]) : n \in 1..2}
         \cup {Obj([k \in WideKeys |-> IF k = "k11" THEN Num(1) ELSE Num(2)])}

\* atomWithHistory(initialValue, ...)
InitialValue(type) ==
  CASE type = "number" -> undefined
    [] type = "counter" -> Num(1)
    [] type = "score" -> Num(1)
    [] type = "array" -> Arr(<<Num(1)>>)
    [] type = "object" -> Obj([a |-> Num(1)])
    [] type = "longArray" -> Arr([j \in 1..(ComplexArrayItems + 1) |-> Num(1)])
    [] type = "wideObject" -> Obj([k \in WideKeys |-> Num(1)])

\* AtomWithHistoryOptions; historyLimit 0 stands for an omitted historyLimit
\* (both are falsy in options?.historyLimit || DEFAULT_HISTORY_LIMIT)
DefaultOptions ==
  [historyLimit |-> 0, shouldTrack |-> "default", customDiff |-> "none",
   useFullValueInstead |-> FALSE]

\* the atoms the application creates: options and value type of atom "a"
SetupsA ==
  {[options |-> DefaultOptions, type |-> ty] :
     ty \in {"number", "array", "object", "longArray", "wideObject"}}
  \cup {[options |-> [DefaultOptions EXCEPT !.historyLimit = 1], type |-> "number"],
        [options |-> [DefaultOptions EXCEPT !.useFullValueInstead = TRUE], type |-> "number"],
        [options |-> [DefaultOptions EXCEPT !.customDiff = "opaque"], type |-> "number"],
        [options |-> [DefaultOptions EXCEPT !.useFullValueInstead = TRUE,
                                            !.customDiff = "opaque"],
         type |-> "counter"],
        [options |-> [DefaultOptions EXCEPT !.shouldTrack = "score"], type |-> "score"]}

\* options and value type of atom "b"
SetupsB ==
  {[options |-> DefaultOptions, type |-> "counter"]}

----------------------------------------------------------------------------
(* State *)

VARIABLES
  baseAtom,                      \* atom id -> value of its baseAtom in historyStore
  options,                       \* atom id -> the options it was created with
  valueType,                     \* atom id -> its TypeScript value type
  atomRegistry,                  \* ids in the atomRegistry Map
  historyStack,                  \* historyStackAtom: [past, future]
  isHistoryOperationInProgress,  \* isHistoryOperationInProgressAtom
  currentGroupOperation,         \* currentGroupOperationAtom: [isNull, entries]
  isGroupOperationInProgress,    \* isGroupOperationInProgressAtom
  groupDepth,                    \* groupOperations calls whose callback is running
  pc,                            \* "idle", or "undo"/"redo" inside the updater
  writeCount,                    \* user writes so far
  lastGroup,                     \* history variable, see NoLastGroup
  argOld, argNew, outDiff, outValue, outReverse, phase   \* diff engine harness

storeVars == <<baseAtom, options, valueType, atomRegistry, historyStack,
               isHistoryOperationInProgress, currentGroupOperation,
               isGroupOperationInProgress, groupDepth, pc, writeCount,
               lastGroup>>
diffVars == <<argOld, argNew, outDiff, outValue, outReverse, phase>>
vars == <<baseAtom, options, valueType, atomRegistry, historyStack,
          isHistoryOperationInProgress, currentGroupOperation,
          isGroupOperationInProgress, groupDepth, pc, writeCount,
          lastGroup, argOld, argNew, outDiff, outValue, outReverse, phase>>

\* lastGroup is a history variable, not program state.  Under SpecGroup it
\* remembers what the atoms held when the outermost groupOperations call
\* began (values) and the entries the writes of its callback have recorded
\* since (entries), while the callback only writes atoms and nests groups
\* (stage "running"), and after the call returned until the next operation
\* other than one undo() (stage "returned"); nested tells whether that
\* callback has called groupOperations itself.  Under the other
\* specifications it is switched off.
LastGroupOff ==
  [stage |-> "off", values |-> <<>>, entries |-> <<>>, nested |-> FALSE]
NoLastGroup ==
  [stage |-> "none", values |-> <<>>, entries |-> <<>>, nested |-> FALSE]

\* lastGroup after an operation that is neither a write nor a group call
ForgetGroup ==
  lastGroup' = IF lastGroup.stage = "off" THEN lastGroup ELSE NoLastGroup

\* lastGroup after a write that took the store to after: inside the
\* callback of a remembered group, the entry the write recorded is appended
RememberWrite(after) ==
  lastGroup' =
    IF groupDepth = 0 THEN (IF lastGroup.stage = "off" THEN lastGroup ELSE NoLastGroup)
    ELSE IF lastGroup.stage # "running" THEN lastGroup
    ELSE IF after.currentGroupOperation # currentGroupOperation
    THEN [lastGroup EXCEPT !.entries =
            Append(@, after.currentGroupOperation.entries[
                        Len(after.currentGroupOperation.entries)])]
    ELSE IF after.historyStack.past # historyStack.past
    THEN [lastGroup EXCEPT !.entries =
            Append(@, after.historyStack.past[Len(after.historyStack.past)])]
    ELSE lastGroup

\* currentGroupOperationAtom holding null
NoGroup == [isNull |-> TRUE, entries |-> <<>>]

\* the part of historyStore that a write to a tracked atom reads and updates
Store ==
  [baseAtom |-> baseAtom, historyStack |-> historyStack,
   currentGroupOperation |-> currentGroupOperation,
   isHistoryOperationInProgress |-> isHistoryOperationInProgress]

----------------------------------------------------------------------------
(* historyManager *)

\* options.customDiff(prev, next); "opaque" is the README's custom diff,
\* an object without a type field
CustomDiff(fn, prevValue, nextValue) ==
  [changedProperties |-> nextValue]

\* entryData that is built also when createDiff found no difference
EntryDataRecordingNull(prevValue, nextValue, opts) ==
  IF opts.useFullValueInstead
  THEN [diff |-> prevValue, fullValue |-> prevValue]
  ELSE IF opts.customDiff # "none"
  THEN [diff |-> CustomDiff(opts.customDiff, prevValue, nextValue),
        fullValue |-> undefined]
  ELSE LET diff == createDiff(prevValue, nextValue)
           isComplexDiff ==
             /\ diff # null
             /\ \/ diff.type = "object"
                   /\ Cardinality(DOMAIN diff.changed) > ComplexObjectKeys
                \/ diff.type = "array" /\ Len(diff.items) > ComplexArrayItems
       IN  [diff |-> diff,
            fullValue |-> IF isComplexDiff THEN prevValue ELSE undefined]

\* entryData with customDiff tested before useFullValueInstead
EntryDataCustomFirst(prevValue, nextValue, opts) ==
  IF opts.customDiff # "none"
  THEN [diff |-> CustomDiff(opts.customDiff, prevValue, nextValue),
        fullValue |-> undefined]
  ELSE IF opts.useFullValueInstead
  THEN [diff |-> prevValue, fullValue |-> prevValue]
  ELSE LET diff == createDiff(prevValue, nextValue)
           isComplexDiff ==
             \/ diff.type = "object"
                /\ Cardinality(DOMAIN diff.changed) > ComplexObjectKeys
             \/ diff.type = "array" /\ Len(diff.items) > ComplexArrayItems
       IN  IF diff = null THEN null
           ELSE [diff |-> diff,
                 fullValue |-> IF isComplexDiff THEN prevValue ELSE undefined]

\* entryData whose complexity test counts from the threshold itself
EntryDataThresholdInclusive(prevValue, nextValue, opts) ==
  IF opts.useFullValueInstead
  THEN [diff |-> prevValue, fullValue |-> prevValue]
  ELSE IF opts.customDiff # "none"
  THEN [diff |-> CustomDiff(opts.customDiff, prevValue, nextValue),
        fullValue |-> undefined]
  ELSE LET diff == createDiff(prevValue, nextValue)
           isComplexDiff ==
             \/ diff.type = "object"
                /\ Cardinality(DOMAIN diff.changed) >= ComplexObjectKeys
             \/ diff.type = "array" /\ Len(diff.items) >= ComplexArrayItems
       IN  IF diff = null THEN null
           ELSE [diff |-> diff,
                 fullValue |-> IF isComplexDiff THEN prevValue ELSE undefined]

\* the entryData pushToHistory computes; null when it returns without recording
EntryData(prevValue, nextValue, opts) ==
  IF opts.useFullValueInstead
  THEN [diff |-> prevValue, fullValue |-> prevValue]
  ELSE IF opts.customDiff # "none"
  THEN [diff |-> CustomDiff(opts.customDiff, prevValue, nextValue),
        fullValue |-> undefined]
  ELSE LET diff == createDiff(prevValue, nextValue)
           isComplexDiff ==
             \/ diff.type = "object"
                /\ Cardinality(DOMAIN diff.changed) > ComplexObjectKeys
             \/ diff.type = "array" /\ Len(diff.items) > ComplexArrayItems
       IN  IF diff = null THEN null
           ELSE [diff |-> diff,
                 fullValue |-> IF isComplexDiff THEN prevValue ELSE undefined]

\* newPast after the push: one shift() when the limit is exceeded
PushWithLimit(past, entry, historyLimit) ==
  LET newPast == Append(past, entry)
  IN  IF Len(newPast) > historyLimit THEN Tail(newPast) ELSE newPast

\* options?.historyLimit || DEFAULT_HISTORY_LIMIT
HistoryLimit(opts) ==
  IF opts.historyLimit # 0 THEN opts.historyLimit ELSE DEFAULT_HISTORY_LIMIT

\* pushToHistory that keeps the redo stack
pushToHistoryKeepingFuture(store, id, prevValue, nextValue, opts) ==
  LET entryData == EntryData(prevValue, nextValue, opts)
      entry == [id |-> id, diff |-> entryData.diff,
                fullValue |-> entryData.fullValue]
  IN  IF entryData = null THEN store
      ELSE IF ~store.currentGroupOperation.isNull
      THEN [store EXCEPT !.currentGroupOperation.entries = Append(@, entry)]
      ELSE [store EXCEPT !.historyStack.past =
              PushWithLimit(@, entry, HistoryLimit(opts))]

\* pushToHistory that does not look at the group buffer
pushToHistoryIgnoringGroup(store, id, prevValue, nextValue, opts) ==
  LET entryData == EntryData(prevValue, nextValue, opts)
      entry == [id |-> id, diff |-> entryData.diff,
                fullValue |-> entryData.fullValue]
  IN  IF entryData = null THEN store
      ELSE [store EXCEPT !.historyStack =
              [past |-> PushWithLimit(store.historyStack.past, entry,
                                      HistoryLimit(opts)),
               future |-> <<>>]]

pushToHistory(store, id, prevValue, nextValue, opts) ==
  LET historyLimit == HistoryLimit(opts)
      entryData == EntryData(prevValue, nextValue, opts)
      entry == [id |-> id, diff |-> entryData.diff,
                fullValue |-> entryData.fullValue]
  IN  IF entryData = null THEN store
      ELSE IF ~store.currentGroupOperation.isNull
      THEN [store EXCEPT !.currentGroupOperation.entries = Append(@, entry)]
      ELSE [store EXCEPT !.historyStack =
              [past |-> PushWithLimit(store.historyStack.past, entry, historyLimit),
               future |-> <<>>]]

\* startGroupOperation()
startGroupOperation ==
  /\ isGroupOperationInProgress' = TRUE
  /\ currentGroupOperation' = [isNull |-> FALSE, entries |-> <<>>]

\* endGroupOperation()
endGroupOperation ==
  LET groupEntries == currentGroupOperation
  IN  /\ historyStack' =
           IF ~groupEntries.isNull /\ Len(groupEntries.entries) > 0
           THEN [past |-> historyStack.past \o groupEntries.entries,
                 future |-> <<>>]
           ELSE historyStack
      /\ isGroupOperationInProgress' = FALSE
      /\ currentGroupOperation' = NoGroup

----------------------------------------------------------------------------
(* atomWithHistory *)

\* options.shouldTrack || ((prev, next) => prev !== next); sameRef says
\* whether next is the very value (for a composite: the very reference)
\* the atom holds.  "score" is the README's predicate; its subtraction is
\* NaN, and the comparison false, unless both values are numbers.
shouldTrack(opts, prev, next, sameRef) ==
  IF opts.shouldTrack = "default" THEN ~sameRef
  ELSE /\ prev.t = "number" /\ next.t = "number"
       /\ (IF next.n >= prev.n THEN next.n - prev.n ELSE prev.n - next.n) > ScoreStep

\* the write function without the isHistoryOperation check
AtomSetterAlwaysRecording(store, id, update, sameRef) ==
  IF ~shouldTrack(options[id], store.baseAtom[id], update, sameRef) THEN store
  ELSE [pushToHistory(store, id, store.baseAtom[id], update, options[id])
          EXCEPT !.baseAtom[id] = update]

\* the write function of the tracked atom: historyStore.set(anAtom, update)
AtomSetter(store, id, update, sameRef) ==
  LET prevValue == store.baseAtom[id]
      nextValue == update
  IN  IF ~shouldTrack(options[id], prevValue, nextValue, sameRef) THEN store
      ELSE LET recorded ==
                 IF ~store.isHistoryOperationInProgress
                 THEN pushToHistory(store, id, prevValue, nextValue, options[id])
                 ELSE store
           IN  [recorded EXCEPT !.baseAtom[id] = update]

IsPrimitive(v) == v.t \in {"undefined", "null", "number", "NaN"}

\* application code sets a tracked atom.  fresh: a composite equal in
\* contents to the held one is a new reference rather than the held one.
\* writeCount counts the writes that changed something.
Write(id, update, fresh) ==
  /\ pc = "idle"
  /\ writeCount < MaxWrites
  /\ LET sameRef == update = baseAtom[id] /\ (IsPrimitive(update) \/ ~fresh)
         after == AtomSetter(Store, id, update, sameRef)
     IN  /\ baseAtom' = after.baseAtom
         /\ historyStack' = after.historyStack
         /\ currentGroupOperation' = after.currentGroupOperation
         /\ RememberWrite(after)
  /\ writeCount' = IF <<baseAtom', historyStack', currentGroupOperation'>>
                       = <<baseAtom, historyStack, currentGroupOperation>>
                    THEN writeCount ELSE writeCount + 1
  /\ UNCHANGED <<options, valueType, atomRegistry, isHistoryOperationInProgress,
                 isGroupOperationInProgress, groupDepth, pc, diffVars>>

\* registerHistoryAtom(atom)
Register(id) ==
  /\ pc = "idle"
  /\ groupDepth = 0
  /\ atomRegistry' = atomRegistry \cup {id}
  /\ ForgetGroup
  /\ UNCHANGED <<baseAtom, options, valueType, historyStack,
                 isHistoryOperationInProgress, currentGroupOperation,
                 isGroupOperationInProgress, groupDepth, pc, writeCount, diffVars>>

\* unregisterHistoryAtom(atom)
Unregister(id) ==
  /\ pc = "idle"
  /\ groupDepth = 0
  /\ atomRegistry' = atomRegistry \ {id}
  /\ ForgetGroup
  /\ UNCHANGED <<baseAtom, options, valueType, historyStack,
                 isHistoryOperationInProgress, currentGroupOperation,
                 isGroupOperationInProgress, groupDepth, pc, writeCount, diffVars>>

----------------------------------------------------------------------------
(* useHistory, under <Provider store={historyStore}> as the README sets it
   up, so that the hook and the atoms share one store.  setHistoryStack is
   called with an updater: jotai evaluates the updater on the current stack
   and then stores what it returned.  The callback of groupOperations may
   write atoms and call undo, redo, clear and groupOperations; atoms are
   registered and unregistered outside callbacks.  History entries carry no
   timestamp here: no operation reads it. *)

Last(s) == s[Len(s)]
Front(s) == SubSeq(s, 1, Len(s) - 1)

\* the value no restore was computed for: the updater returns currentStack
Abandon == [abandon |-> TRUE]

\* undo: previousValue for lastEntry, given the atom's currentValue
UndoValue(lastEntry, currentValue) ==
  IF lastEntry.fullValue # undefined THEN lastEntry.fullValue
  ELSE IF HasType(lastEntry.diff)
          /\ reverseDiff(lastEntry.diff) # UnknownDiffType
  THEN applyDiff(currentValue, reverseDiff(lastEntry.diff))
  ELSE IF HasType(lastEntry.diff) /\ lastEntry.diff.type = "value"
          /\ "before" \in DOMAIN lastEntry.diff
  THEN lastEntry.diff.before
  ELSE Abandon

\* redo: nextValue for nextEntry, given the atom's currentValue
RedoValue(nextEntry, currentValue) ==
  IF nextEntry.fullValue # undefined THEN nextEntry.fullValue
  ELSE IF HasType(nextEntry.diff)
  THEN applyDiff(currentValue, nextEntry.diff)
  ELSE Abandon

\* the stack the updater of undo returns after a restore
UndoStack(currentStack) ==
  LET lastEntry == Last(currentStack.past)
      newPast == Front(currentStack.past)
  IN  [past |-> newPast,
       future |-> Append(currentStack.future,
                         [id |-> lastEntry.id, diff |-> lastEntry.diff,
                          fullValue |-> lastEntry.fullValue])]

\* the stack the updater of redo returns after a restore
RedoStack(currentStack) ==
  LET nextEntry == Last(currentStack.future)
      newFuture == Front(currentStack.future)
  IN  [past |-> Append(currentStack.past,
                       [id |-> nextEntry.id, diff |-> nextEntry.diff,
                        fullValue |-> nextEntry.fullValue]),
       future |-> newFuture]

\* if (!atomWithId) return currentStack
Unresolved(currentStack) == currentStack

\* the flag reset after the restoring write only, not in a finally block
FlagResetOnSuccessOnly(restored) == ~restored

\* finally { setIsHistoryOperation(false) }; restored is FALSE when the try
\* block returned early without a value to restore
FlagAfterRestore(restored) == FALSE

\* undo() that sets the flag before it looks at the stack
UndoEnterFlagFirst ==
  /\ pc = "idle"
  /\ IF historyStack.past = <<>>
     THEN /\ isHistoryOperationInProgress' = TRUE
          /\ UNCHANGED <<historyStack, pc>>
     ELSE IF Last(historyStack.past).id \notin atomRegistry
     THEN /\ historyStack' = Unresolved(historyStack)
          /\ UNCHANGED <<isHistoryOperationInProgress, pc>>
     ELSE /\ isHistoryOperationInProgress' = TRUE
          /\ pc' = "undo"
          /\ UNCHANGED historyStack
  /\ (IF groupDepth = 0 /\ pc' = "undo" THEN UNCHANGED lastGroup ELSE ForgetGroup)
  /\ UNCHANGED <<baseAtom, options, valueType, atomRegistry,
                 currentGroupOperation, isGroupOperationInProgress, groupDepth,
                 writeCount, diffVars>>

\* undo(), up to setIsHistoryOperation(true)
UndoEnter ==
  /\ pc = "idle"
  /\ IF historyStack.past = <<>>
     THEN UNCHANGED <<historyStack, isHistoryOperationInProgress, pc>>
     ELSE IF Last(historyStack.past).id \notin atomRegistry
     THEN /\ historyStack' = Unresolved(historyStack)
          /\ UNCHANGED <<isHistoryOperationInProgress, pc>>
     ELSE /\ isHistoryOperationInProgress' = TRUE
          /\ pc' = "undo"
          /\ UNCHANGED historyStack
  /\ (IF groupDepth = 0 /\ pc' = "undo" THEN UNCHANGED lastGroup ELSE ForgetGroup)
  /\ UNCHANGED <<baseAtom, options, valueType, atomRegistry,
                 currentGroupOperation, isGroupOperationInProgress, groupDepth,
                 writeCount, diffVars>>

\* undo(), the try block and its finally.  When the restored value has the
\* contents the atom already holds, the write changes nothing whether or
\* not it is the same reference, so sameRef is taken from the contents.
UndoRestore ==
  /\ pc = "undo"
  /\ LET currentStack == historyStack
         lastEntry == Last(currentStack.past)
         currentValue == baseAtom[lastEntry.id]
         previousValue == UndoValue(lastEntry, currentValue)
         after == AtomSetter(Store, lastEntry.id, previousValue,
                             previousValue = currentValue)
     IN  IF previousValue = Abandon
         THEN /\ UNCHANGED <<baseAtom, historyStack, currentGroupOperation>>
              /\ isHistoryOperationInProgress' = FlagAfterRestore(FALSE)
         ELSE /\ baseAtom' = after.baseAtom
              /\ currentGroupOperation' = after.currentGroupOperation
              /\ historyStack' = UndoStack(currentStack)
              /\ isHistoryOperationInProgress' = FlagAfterRestore(TRUE)
  /\ pc' = "idle"
  /\ ForgetGroup
  /\ UNCHANGED <<options, valueType, atomRegistry, isGroupOperationInProgress,
                 groupDepth, writeCount, diffVars>>

\* redo(), up to setIsHistoryOperation(true)
RedoEnter ==
  /\ pc = "idle"
  /\ IF historyStack.future = <<>>
     THEN UNCHANGED <<historyStack, isHistoryOperationInProgress, pc>>
     ELSE IF Last(historyStack.future).id \notin atomRegistry
     THEN /\ historyStack' = Unresolved(historyStack)
          /\ UNCHANGED <<isHistoryOperationInProgress, pc>>
     ELSE /\ isHistoryOperationInProgress' = TRUE
          /\ pc' = "redo"
          /\ UNCHANGED historyStack
  /\ ForgetGroup
  /\ UNCHANGED <<baseAtom, options, valueType, atomRegistry,
                 currentGroupOperation, isGroupOperationInProgress, groupDepth,
                 writeCount, diffVars>>

\* redo(), the try block and its finally
RedoRestore ==
  /\ pc = "redo"
  /\ LET currentStack == historyStack
         nextEntry == Last(currentStack.future)
         currentValue == baseAtom[nextEntry.id]
         nextValue == RedoValue(nextEntry, currentValue)
         after == AtomSetter(Store, nextEntry.id, nextValue,
                             nextValue = currentValue)
     IN  IF nextValue = Abandon
         THEN /\ UNCHANGED <<baseAtom, historyStack, currentGroupOperation>>
              /\ isHistoryOperationInProgress' = FlagAfterRestore(FALSE)
         ELSE /\ baseAtom' = after.baseAtom
              /\ currentGroupOperation' = after.currentGroupOperation
              /\ historyStack' = RedoStack(currentStack)
              /\ isHistoryOperationInProgress' = FlagAfterRestore(TRUE)
  /\ pc' = "idle"
  /\ ForgetGroup
  /\ UNCHANGED <<options, valueType, atomRegistry, isGroupOperationInProgress,
                 groupDepth, writeCount, diffVars>>

\* clear() that resets past and keeps future
ClearPastOnly ==
  /\ pc = "idle"
  /\ historyStack' = [historyStack EXCEPT !.past = <<>>]
  /\ ForgetGroup
  /\ UNCHANGED <<baseAtom, options, valueType, atomRegistry,
                 isHistoryOperationInProgress, currentGroupOperation,
                 isGroupOperationInProgress, groupDepth, pc, writeCount, diffVars>>

\* clear()
Clear ==
  /\ pc = "idle"
  /\ historyStack' = [past |-> <<>>, future |-> <<>>]
  /\ ForgetGroup
  /\ UNCHANGED <<baseAtom, options, valueType, atomRegistry,
                 isHistoryOperationInProgress, currentGroupOperation,
                 isGroupOperationInProgress, groupDepth, pc, writeCount, diffVars>>

\* groupOperations(callback): startGroupOperation(), then the callback runs
GroupEnter ==
  /\ pc = "idle"
  /\ groupDepth < MaxGroupDepth
  /\ startGroupOperation
  /\ groupDepth' = groupDepth + 1
  /\ lastGroup' = IF groupDepth = 0 /\ lastGroup.stage # "off"
                  THEN [stage |-> "running", values |-> baseAtom,
                        entries |-> <<>>, nested |-> FALSE]
                  ELSE IF lastGroup.stage = "running"
                  THEN [lastGroup EXCEPT !.nested = TRUE]
                  ELSE lastGroup
  /\ UNCHANGED <<baseAtom, options, valueType, atomRegistry, historyStack,
                 isHistoryOperationInProgress, pc, writeCount, diffVars>>

\* groupOperations(callback): the callback returned or raised; the finally
\* block runs endGroupOperation()
GroupExit ==
  /\ pc = "idle"
  /\ groupDepth > 0
  /\ endGroupOperation
  /\ groupDepth' = groupDepth - 1
  /\ lastGroup' = IF groupDepth = 1 /\ lastGroup.stage = "running"
                  THEN [lastGroup EXCEPT !.stage = "returned"]
                  ELSE lastGroup
  /\ UNCHANGED <<baseAtom, options, valueType, atomRegistry,
                 isHistoryOperationInProgress, pc, writeCount, diffVars>>

----------------------------------------------------------------------------
(* The application: atoms are created and registered, then used *)

DiffIdle ==
  /\ argOld = undefined /\ argNew = undefined /\ outDiff = null
  /\ outValue = undefined /\ outReverse = undefined /\ phase = "off"

AppInit ==
  /\ \E sa \in SetupsA, sb \in SetupsB :
       /\ options = [id \in AtomIds |-> IF id = "a" THEN sa.options ELSE sb.options]
       /\ valueType = [id \in AtomIds |-> IF id = "a" THEN sa.type ELSE sb.type]
  /\ baseAtom = [id \in AtomIds |-> InitialValue(valueType[id])]
  /\ atomRegistry = AtomIds
  /\ historyStack = [past |-> <<>>, future |-> <<>>]
  /\ isHistoryOperationInProgress = FALSE
  /\ currentGroupOperation = NoGroup
  /\ isGroupOperationInProgress = FALSE
  /\ groupDepth = 0
  /\ pc = "idle"
  /\ writeCount = 0
  /\ DiffIdle

Init == AppInit /\ lastGroup = LastGroupOff

Next ==
  \/ \E id \in AtomIds : \E update \in TypeValues(valueType[id]) :
       \E fresh \in BOOLEAN : Write(id, update, fresh)
  \/ \E id \in AtomIds : Register(id)
  \/ \E id \in AtomIds : Unregister(id)
  \/ UndoEnter
  \/ UndoRestore
  \/ RedoEnter
  \/ RedoRestore
  \/ Clear
  \/ GroupEnter
  \/ GroupExit

Spec == Init /\ [][Next]_vars

\* the same application, with the history variable lastGroup switched on
InitGroup == AppInit /\ lastGroup = NoLastGroup
SpecGroup == InitGroup /\ [][Next]_vars

\* atom "a" holds a number and is created with the default options or with
\* a customDiff
InitLive ==
  /\ Init
  /\ valueType["a"] = "number"
  /\ options["a"] \in {DefaultOptions, [DefaultOptions EXCEPT !.customDiff = "opaque"]}

\* the same application under its scheduling: undo() and redo() are
\* synchronous, so a call that has set the flag runs to its finally block,
\* and a caller who keeps calling undo() gets each call executed
SpecLive ==
  /\ InitLive
  /\ [][Next]_vars
  /\ WF_vars(UndoEnter)
  /\ WF_vars(UndoRestore)
  /\ WF_vars(RedoRestore)

----------------------------------------------------------------------------
(* The diff engine on its own: createDiff, applyDiff and reverseDiff applied
   to a pair of values *)

\* longest array and the numbers used as elements and property values
MaxArrayLen == 2
MaxNum == 2

Elements == {undefined} \cup {Num(n) : n \in 1..MaxNum}
Keys == {"a", "b"}

SeqsUpTo(S, n) == UNION {[1..m -> S] : m \in 0..n}
Arrays == {Arr(s) : s \in SeqsUpTo(Elements, MaxArrayLen)}
FlatObjects == {Obj(f) : f \in UNION {[K -> Elements] : K \in SUBSET Keys}}
\* objects with one nested object or array under key "a"
NestedObjects ==
  {Obj([a |-> inner]) : inner \in {Obj(<<>>), Obj([b |-> Num(1)]),
                                   Arr(<<>>), Arr(<<Num(1)>>)}}
\* the objects of the documented example: {a: 1, b: 2} and {b: 3, c: 4}
ExampleOld == Obj([a |-> Num(1), b |-> Num(2)])
ExampleNew == Obj([b |-> Num(3), c |-> Num(4)])
\* the arrays of the documented example: [1, 2, 3] and [1, 5, 3, 9]
ExampleOldArray == Arr(<<Num(1), Num(2), Num(3)>>)
ExampleNewArray == Arr(<<Num(1), Num(5), Num(3), Num(9)>>)
DiffValues ==
  Elements \cup {null, NaN} \cup Arrays \cup FlatObjects \cup NestedObjects
  \cup {ExampleOld, ExampleNew, ExampleOldArray, ExampleNewArray}

StoreIdle ==
  /\ baseAtom = [id \in AtomIds |-> undefined]
  /\ options = [id \in AtomIds |-> DefaultOptions]
  /\ valueType = [id \in AtomIds |-> "number"]
  /\ atomRegistry = {}
  /\ historyStack = [past |-> <<>>, future |-> <<>>]
  /\ isHistoryOperationInProgress = FALSE
  /\ currentGroupOperation = NoGroup
  /\ isGroupOperationInProgress = FALSE
  /\ groupDepth = 0
  /\ pc = "idle"
  /\ writeCount = 0
  /\ lastGroup = LastGroupOff

InitDiff ==
  /\ StoreIdle
  /\ argOld \in DiffValues
  /\ argNew \in DiffValues
  /\ outDiff = null
  /\ outValue = undefined
  /\ outReverse = undefined
  /\ phase = "args"

\* diff = createDiff(argOld, argNew)
CallCreateDiff ==
  /\ phase = "args"
  /\ outDiff' = createDiff(argOld, argNew)
  /\ phase' = "diffed"
  /\ UNCHANGED <<argOld, argNew, outValue, outReverse, storeVars>>

\* applyDiff(argOld, diff)
CallApplyDiff ==
  /\ phase = "diffed"
  /\ outDiff # null
  /\ outValue' = applyDiff(argOld, outDiff)
  /\ phase' = "applied"
  /\ UNCHANGED <<argOld, argNew, outDiff, outReverse, storeVars>>

\* applyDiff(argNew, reverseDiff(diff))
CallReverseDiff ==
  /\ phase = "applied"
  /\ outReverse' = applyDiff(argNew, reverseDiff(outDiff))
  /\ phase' = "reversed"
  /\ UNCHANGED <<argOld, argNew, outDiff, outValue, storeVars>>

NextDiff == CallCreateDiff \/ CallApplyDiff \/ CallReverseDiff

SpecDiff == InitDiff /\ [][NextDiff]_vars

----------------------------------------------------------------------------
(* The diff engine on deltas it is handed: applyDiff and reverseDiff applied
   to a value and a delta, the delta written by hand (phase "delta": what a
   customDiff may return, or an entry left over from another value) or made
   by createDiff (phase "created") *)

\* most items of a hand-written array delta, and its largest index
MaxDeltaItems == 2

\* outValue, outReverse before the call
NotCalled == [called |-> FALSE]

DeltaItems ==
  {[index |-> i, value |-> v, added |-> kind = "added", removed |-> kind = "removed"] :
     i \in 0..MaxDeltaItems, v \in {undefined, Num(1)},
     kind \in {"added", "removed", "plain"}}
ArrayDeltas ==
  {[type |-> "array", items |-> items] : items \in SeqsUpTo(DeltaItems, MaxDeltaItems)}
ObjectDeltas ==
  {[type |-> "object", changed |-> changed, added |-> added, deleted |-> deleted] :
     changed \in {<<>>, [a |-> [type |-> "value", before |-> Num(1), after |-> Num(2)]]},
     added \in {<<>>, [b |-> Num(1)]},
     deleted \in {{}, {"a"}}}
ValueDeltas ==
  {[type |-> "value", before |-> v, after |-> w] : v, w \in Elements \cup {null}}
\* deltas with a discriminant that is none of value, object, array: at the
\* top, and in a child of an object delta
UnknownDeltas ==
  {[type |-> "patch"],
   [type |-> "object", changed |-> [a |-> [type |-> "patch"]], added |-> <<>>,
    deleted |-> {}]}

\* the values the hand-written array deltas are applied to
ArrayDeltaTargets ==
  {Arr(<<>>), Arr(<<Num(2)>>), Arr(<<Num(2), Num(3)>>),
   undefined, null, Num(1), Obj([a |-> Num(1)])}

InitDelta ==
  /\ StoreIdle
  /\ outValue = NotCalled
  /\ outReverse = NotCalled
  /\ \/ /\ phase = "delta"
        /\ argNew = undefined
        /\ \/ argOld \in ArrayDeltaTargets /\ outDiff \in ArrayDeltas
           \/ /\ argOld \in DiffValues
              /\ outDiff \in ObjectDeltas \cup ValueDeltas \cup UnknownDeltas
     \/ /\ phase = "created"
        /\ argOld \in DiffValues
        /\ argNew \in DiffValues
        /\ outDiff = createDiff(argOld, argNew)
        /\ outDiff # null

\* applyDiff(argOld, delta)
CallApplyDelta ==
  /\ phase \in {"delta", "created"}
  /\ outValue = NotCalled
  /\ outValue' = applyDiff(argOld, outDiff)
  /\ UNCHANGED <<argOld, argNew, outDiff, outReverse, phase, storeVars>>

\* reverseDiff(delta)
CallReverseDelta ==
  /\ phase \in {"delta", "created"}
  /\ outReverse = NotCalled
  /\ outReverse' = reverseDiff(outDiff)
  /\ UNCHANGED <<argOld, argNew, outDiff, outValue, phase, storeVars>>

NextDelta == CallApplyDelta \/ CallReverseDelta

SpecDelta == InitDelta /\ [][NextDelta]_vars

----------------------------------------------------------------------------
(* Properties *)

\* the atom has the default diff policy: no customDiff, no useFullValueInstead
DefaultDiffPolicy(id) ==
  options[id].customDiff = "none" /\ ~options[id].useFullValueInstead

\* a write v1 -> v2 of atom id is recorded (shouldTrack passes and
\* pushToHistory builds an entry)
Records(id, v1, v2) ==
  /\ v1 # v2
  /\ shouldTrack(options[id], v1, v2, FALSE)
  /\ EntryData(v1, v2, options[id]) # null

\* the entry it records
RecordedEntry(id, v1, v2) ==
  [id |-> id, diff |-> EntryData(v1, v2, options[id]).diff,
   fullValue |-> EntryData(v1, v2, options[id]).fullValue]

\* C1: after a write v1 -> v2 of an atom with the default diff policy was
\* recorded (its entry is the last of past and the atom holds v2), undo()
\* leaves the atom holding v1.
UndoRevertsToPreviousValue ==
  [][UndoRestore =>
       LET id == Last(historyStack.past).id
       IN  \A v1 \in TypeValues(valueType[id]) :
             (/\ DefaultDiffPolicy(id)
              /\ Records(id, v1, baseAtom[id])
              /\ Last(historyStack.past) = RecordedEntry(id, v1, baseAtom[id]))
             => baseAtom'[id] = v1]_vars

\* C2: after a recorded write v1 -> v2, an undo() (the entry is the last of
\* future and the atom holds what that undo left) and a redo(), the atom
\* holds v2 again, for the default delta, a delta with fullValue attached
\* and useFullValueInstead.
RedoAppliesNextState ==
  [][RedoRestore =>
       LET id == Last(historyStack.future).id
           nextEntry == Last(historyStack.future)
       IN  \A v1, v2 \in TypeValues(valueType[id]) :
             (/\ options[id].customDiff = "none"
              /\ Records(id, v1, v2)
              /\ nextEntry = RecordedEntry(id, v1, v2)
              /\ UndoValue(nextEntry, v2) # Abandon
              /\ baseAtom[id] = UndoValue(nextEntry, v2))
             => baseAtom'[id] = v2]_vars

\* the atoms whose value the group that just returned has changed
ChangedByGroup ==
  {id \in AtomIds : baseAtom[id] # lastGroup.values[id]}

\* C3: when a groupOperations call whose callback wrote several distinct
\* atoms has returned, one undo() puts every atom the group changed back to
\* the value it held before the group.
GroupIsOneUndoStep ==
  [][(/\ UndoRestore
      /\ lastGroup.stage = "returned"
      /\ Cardinality(ChangedByGroup) >= 2)
     => \A id \in ChangedByGroup : baseAtom'[id] = lastGroup.values[id]]_vars

\* both arrays, or both plain objects
MatchingShape(v1, v2) ==
  \/ IsArray(v1) /\ IsArray(v2)
  \/ v1.t = "object" /\ v2.t = "object"

\* C4: for v1, v2 of matching shape with createDiff(v1, v2) non-null,
\* applyDiff(v1, createDiff(v1, v2)) equals v2.
ForwardRoundTrip ==
  (phase \in {"applied", "reversed"} /\ MatchingShape(argOld, argNew))
  => outValue = argNew

\* C5: for v1, v2 of matching shape with createDiff(v1, v2) non-null,
\* applyDiff(v2, reverseDiff(createDiff(v1, v2))) equals v1.
ReverseRoundTrip ==
  (phase = "reversed" /\ MatchingShape(argOld, argNew))
  => outReverse = argOld

\* a step in which application code, outside undo/redo, changed an atom
Mutation == pc = "idle" /\ baseAtom' # baseAtom

\* C6 as stated: any mutation of a tracked atom made outside undo/redo
\* clears future.
MutationClearsFuture ==
  [][Mutation => historyStack'.future = <<>>]_vars

\* a step in which a write pushed an entry directly onto past
DirectPush ==
  /\ pc = "idle"
  /\ writeCount' # writeCount
  /\ currentGroupOperation.isNull
  /\ historyStack' # historyStack

\* C6 as amended: any mutation of a tracked atom made outside undo/redo
\* that records a history entry while no group buffer is active clears
\* future.
DirectPushClearsFuture ==
  [][DirectPush => historyStack'.future = <<>>]_vars

\* C6: an undo has left an entry on future, no group buffer is active and
\* application code can still write an atom
UndoneAndWritable ==
  /\ pc = "idle"
  /\ historyStack.future # <<>>
  /\ currentGroupOperation.isNull
  /\ writeCount < MaxWrites

\* C7: after a non-grouped push by an atom with limit L, past holds at most
\* L entries, whatever its length before, and what was evicted was taken
\* from the head of past.
EvictionBound ==
  [][DirectPush =>
       LET newPast == historyStack'.past
           pushed == Last(newPast)
       IN  /\ Len(newPast) <= HistoryLimit(options[pushed.id])
           /\ \E k \in 0..Len(historyStack.past) :
                Front(newPast) =
                  SubSeq(historyStack.past, k + 1, Len(historyStack.past))]_vars

\* C8: undo() with the last entry of past naming an unregistered atom
\* removes that entry from past and does not push it onto future.
UnresolvedEntryDropped ==
  (/\ pc = "idle"
   /\ historyStack.past # <<>>
   /\ Last(historyStack.past).id \notin atomRegistry)
  => /\ Unresolved(historyStack).past = Front(historyStack.past)
     /\ Unresolved(historyStack).future = historyStack.future

\* C9: an undo() that restores a value removes exactly the last entry of
\* past and appends that entry to future; the restoring write records
\* nothing, neither on the stacks nor in the group buffer.  Symmetrically
\* for redo().
RestoreMovesOneEntry ==
  [][/\ (UndoRestore
         /\ UndoValue(Last(historyStack.past),
                      baseAtom[Last(historyStack.past).id]) # Abandon)
        => /\ historyStack'.past = Front(historyStack.past)
           /\ historyStack'.future =
                Append(historyStack.future, Last(historyStack.past))
           /\ currentGroupOperation' = currentGroupOperation
     /\ (RedoRestore
         /\ RedoValue(Last(historyStack.future),
                      baseAtom[Last(historyStack.future).id]) # Abandon)
        => /\ historyStack'.future = Front(historyStack.future)
           /\ historyStack'.past =
                Append(historyStack.past, Last(historyStack.future))
           /\ currentGroupOperation' = currentGroupOperation]_vars

\* C9: undo() is inside its try block, in the callback of a group that has
\* buffered an entry, about to write a value other than the one held
UndoWritingInsideGroup ==
  /\ pc = "undo"
  /\ currentGroupOperation.entries # <<>>
  /\ LET lastEntry == Last(historyStack.past)
         previousValue == UndoValue(lastEntry, baseAtom[lastEntry.id])
     IN  previousValue # Abandon /\ previousValue # baseAtom[lastEntry.id]

\* C10: the suppression flag is true exactly inside the try block of undo()
\* and redo(): it is false whenever no call is in progress, after every way
\* the call can end.
FlagOnlyDuringRestore ==
  isHistoryOperationInProgress <=> pc \in {"undo", "redo"}

\* C10: undo() is inside its try block with the flag set and has no value
\* to restore, so it is about to leave through the early return
UndoAboutToAbandon ==
  /\ pc = "undo"
  /\ isHistoryOperationInProgress
  /\ UndoValue(Last(historyStack.past),
               baseAtom[Last(historyStack.past).id]) = Abandon

\* C11: an undo() that cannot compute a value to restore writes no atom,
\* removes the entry from past and does not push it onto future.
AbandonedUndoDropsEntry ==
  [][(/\ UndoRestore
      /\ UndoValue(Last(historyStack.past),
                   baseAtom[Last(historyStack.past).id]) = Abandon)
     => /\ baseAtom' = baseAtom
        /\ historyStack'.past = Front(historyStack.past)
        /\ historyStack'.future = historyStack.future]_vars

\* s is a suffix of t
IsSuffix(s, t) ==
  Len(s) <= Len(t) /\ SubSeq(t, Len(t) - Len(s) + 1, Len(t)) = s

\* C12: when a groupOperations call exits, by return or by exception, the
\* group buffer is null and the entries its callback recorded are on past
\* (atoms with the default limit, under which nothing is evicted here).
GroupAlwaysEnded ==
  [][(/\ GroupExit
      /\ groupDepth = 1
      /\ lastGroup.stage = "running"
      /\ \A id \in AtomIds : options[id].historyLimit = 0)
     => /\ currentGroupOperation' = NoGroup
        /\ ~isGroupOperationInProgress'
        /\ IsSuffix(lastGroup.entries, historyStack'.past)]_vars

\* C13: clear() empties past and future and changes nothing else: not the
\* registry, not the value of any atom, not the group buffer or the flags.
ClearResetsStacksOnly ==
  [][Clear => /\ historyStack' = [past |-> <<>>, future |-> <<>>]
              /\ UNCHANGED <<baseAtom, atomRegistry, options,
                             currentGroupOperation, isGroupOperationInProgress,
                             isHistoryOperationInProgress>>]_vars

\* C13: clear() can be called with entries on both stacks, inside a group
\* that has buffered an entry
ClearableInsideGroup ==
  /\ pc = "idle"
  /\ historyStack.past # <<>>
  /\ historyStack.future # <<>>
  /\ currentGroupOperation.entries # <<>>

\* C14: a write for which shouldTrack(prev, next) is false records nothing
\* (past, future and group buffer unchanged) and the atom takes the written
\* value.
UntrackedWriteStillWrites ==
  \A id \in AtomIds : \A update \in TypeValues(valueType[id]) :
    \A fresh \in BOOLEAN :
      LET sameRef == update = baseAtom[id] /\ (IsPrimitive(update) \/ ~fresh)
          after == AtomSetter(Store, id, update, sameRef)
      IN  (pc = "idle" /\ ~shouldTrack(options[id], baseAtom[id], update, sameRef))
          => /\ after.historyStack = historyStack
             /\ after.currentGroupOperation = currentGroupOperation
             /\ after.baseAtom[id] = update

\* C16: when a group that recorded entries ends, past holds at most the
\* limit configured (for the most generous of the atoms it recorded) and
\* future is empty.
GroupEndEnforcesLimit ==
  [][(GroupExit /\ currentGroupOperation.entries # <<>>)
     => /\ \E j \in 1..Len(currentGroupOperation.entries) :
             Len(historyStack'.past)
               <= HistoryLimit(options[currentGroupOperation.entries[j].id])
        /\ historyStack'.future = <<>>]_vars

\* a step in which a write recorded an entry while the group buffer was active
GroupPush ==
  /\ pc = "idle"
  /\ writeCount' # writeCount
  /\ ~currentGroupOperation.isNull

\* C17: while the group buffer is active a push appends its entry to the
\* buffer and leaves past and future as they are; an endGroupOperation with
\* an empty buffer leaves past and future as they are.
GroupPushIsDeferred ==
  [][/\ GroupPush
        => /\ historyStack' = historyStack
           /\ \E id \in AtomIds :
                /\ baseAtom'[id] # baseAtom[id]
                /\ currentGroupOperation' =
                     [isNull |-> FALSE,
                      entries |-> Append(currentGroupOperation.entries,
                                         RecordedEntry(id, baseAtom[id],
                                                       baseAtom'[id]))]
     /\ (GroupExit /\ currentGroupOperation.entries = <<>>)
        => historyStack' = historyStack]_vars

\* C17: a push has gone to the buffer of an active group and the entries of
\* past and future are still in place
BufferedBesideStacks ==
  /\ pc = "idle"
  /\ ~currentGroupOperation.isNull
  /\ currentGroupOperation.entries # <<>>
  /\ historyStack.past # <<>>
  /\ historyStack.future # <<>>

\* C18: a push with the default policy whose createDiff(prevValue,
\* nextValue) is null changes nothing: not past, not future, not the group
\* buffer.
NullDiffPushIsNoOp ==
  \A id \in AtomIds : \A prevValue, nextValue \in TypeValues(valueType[id]) :
    (DefaultDiffPolicy(id) /\ createDiff(prevValue, nextValue) = null)
    => pushToHistory(Store, id, prevValue, nextValue, options[id]) = Store

\* C18: an atom with the default policy holds a composite, so that a write
\* of a new reference with the same contents reaches pushToHistory, while
\* the group buffer is active and both stacks hold entries
NullDiffPushPossible ==
  /\ pc = "idle"
  /\ DefaultDiffPolicy("a")
  /\ ~IsPrimitive(baseAtom["a"])
  /\ ~currentGroupOperation.isNull
  /\ historyStack.past # <<>>
  /\ historyStack.future # <<>>

\* the entries a push of prevValue -> nextValue by atom id appends to an
\* active, empty group buffer
Pushed(id, prevValue, nextValue) ==
  pushToHistory([Store EXCEPT !.currentGroupOperation =
                                 [isNull |-> FALSE, entries |-> <<>>]],
                id, prevValue, nextValue, options[id]).currentGroupOperation.entries

\* C19: with useFullValueInstead the entry stores prevValue as diff and as
\* fullValue, whatever customDiff and createDiff give; otherwise, with a
\* customDiff, the diff is its result and no fullValue is attached;
\* otherwise the diff is createDiff's, and nothing is pushed when it is null.
EntryConstructionPriority ==
  \A id \in AtomIds : \A prevValue, nextValue \in TypeValues(valueType[id]) :
    LET pushed == Pushed(id, prevValue, nextValue)
    IN  IF options[id].useFullValueInstead
        THEN pushed = <<[id |-> id, diff |-> prevValue, fullValue |-> prevValue]>>
        ELSE IF options[id].customDiff # "none"
        THEN pushed = <<[id |-> id,
                         diff |-> CustomDiff(options[id].customDiff,
                                             prevValue, nextValue),
                         fullValue |-> undefined]>>
        ELSE IF createDiff(prevValue, nextValue) = null
        THEN pushed = <<>>
        ELSE /\ Len(pushed) = 1
             /\ pushed[1].id = id
             /\ pushed[1].diff = createDiff(prevValue, nextValue)

\* C19: an atom created with both useFullValueInstead and customDiff has
\* recorded an entry
BothOptionsRecorded ==
  /\ options["a"].useFullValueInstead
  /\ options["a"].customDiff # "none"
  /\ historyStack.past # <<>>
  /\ Last(historyStack.past).id = "a"

\* createDiff has been called on the two arguments
Diffed == phase \in {"diffed", "applied", "reversed"}

\* C15: createDiff(v, v) is null for every value v, and createDiff of two
\* objects with the same keys and pairwise equal values is null.
CreateDiffOfEqualIsNull ==
  (Diffed /\ argOld = argNew) => outDiff = null

\* C20: createDiff on two objects returns an object diff whose deleted is
\* exactly the keys of old not in new, whose added maps exactly the keys of
\* new not in old to their new value, and whose changed maps exactly the
\* keys of both whose recursive createDiff is non-null to that diff; it
\* returns null iff all three are empty.  {a: 1, b: 2} against {b: 3, c: 4}
\* gives changed {b: value(2, 3)}, added {c: 4}, deleted [a].
ObjectDiffCompleteness ==
  (Diffed /\ argOld.t = "object" /\ argNew.t = "object")
  => LET old == argOld.fields
         new == argNew.fields
         deleted == DOMAIN old \ DOMAIN new
         addedKeys == DOMAIN new \ DOMAIN old
         changedKeys == {k \in DOMAIN old \cap DOMAIN new :
                           createDiff(old[k], new[k]) # null}
     IN  /\ IF deleted = {} /\ addedKeys = {} /\ changedKeys = {}
            THEN outDiff = null
            ELSE /\ outDiff # null
                 /\ outDiff.type = "object"
                 /\ outDiff.deleted = deleted
                 /\ outDiff.added = [k \in addedKeys |-> new[k]]
                 /\ DOMAIN outDiff.changed = changedKeys
                 /\ \A k \in changedKeys :
                      outDiff.changed[k] = createDiff(old[k], new[k])
         /\ (argOld = ExampleOld /\ argNew = ExampleNew)
            => outDiff = [type |-> "object",
                          changed |-> [b |-> [type |-> "value", before |-> Num(2),
                                              after |-> Num(3)]],
                          added |-> [c |-> Num(4)],
                          deleted |-> {"a"}]

\* C20: createDiff has been called on the objects of the documented example
ExampleDiffed ==
  /\ phase = "diffed"
  /\ argOld = ExampleOld
  /\ argNew = ExampleNew
  /\ outDiff # null

\* C21: createDiff on two arrays gives one item per differing index below
\* max(len(old), len(new)), in strictly ascending index order; an item at an
\* index past the old array is flagged added and carries the new value, one
\* past the new array is flagged removed, one inside both carries the new
\* value with neither flag; the result is null iff no index differs.
\* [1, 2, 3] against [1, 5, 3, 9] gives [{index: 1, value: 5},
\* {index: 3, value: 9, added}].
ArrayDiffPositional ==
  (Diffed /\ IsArray(argOld) /\ IsArray(argNew))
  => LET old == argOld.items
         new == argNew.items
         differing == {i \in 0..(Max(Len(old), Len(new)) - 1) :
                         i >= Len(old) \/ i >= Len(new) \/ old[i + 1] # new[i + 1]}
     IN  /\ IF differing = {}
            THEN outDiff = null
            ELSE /\ outDiff # null
                 /\ outDiff.type = "array"
                 /\ {outDiff.items[j].index : j \in 1..Len(outDiff.items)} = differing
                 /\ \A j \in 1..(Len(outDiff.items) - 1) :
                      outDiff.items[j].index < outDiff.items[j + 1].index
                 /\ \A j \in 1..Len(outDiff.items) :
                      LET item == outDiff.items[j]
                      IN  /\ item.added <=> item.index >= Len(old)
                          /\ item.removed <=> item.index >= Len(new)
                          /\ item.index < Len(new) => item.value = new[item.index + 1]
         /\ (argOld = ExampleOldArray /\ argNew = ExampleNewArray)
            => outDiff = [type |-> "array",
                          items |-> <<[index |-> 1, value |-> Num(5),
                                       added |-> FALSE, removed |-> FALSE],
                                      [index |-> 3, value |-> Num(9),
                                       added |-> TRUE, removed |-> FALSE]>>]

\* C21: createDiff has been called on the arrays of the documented example
ExampleArrayDiffed ==
  /\ phase = "diffed"
  /\ argOld = ExampleOldArray
  /\ argNew = ExampleNewArray
  /\ outDiff # null

\* the three phases as the specification words them: the additions, in
\* listed order, by positional insertion
RECURSIVE ReferenceInsertions(_, _)
ReferenceInsertions(result, additions) ==
  IF additions = <<>> THEN result
  ELSE ReferenceInsertions(SpliceInsert(result, Head(additions).index,
                                        Head(additions).value),
                           Tail(additions))

\* then the plain replacements
RECURSIVE ReferenceReplacements(_, _)
ReferenceReplacements(result, replacements) ==
  IF replacements = <<>> THEN result
  ELSE ReferenceReplacements(SetIndex(result, Head(replacements).index,
                                      Head(replacements).value),
                             Tail(replacements))

\* removals by descending index, then additions, then replacements
ThreePhaseApply(arr, diff) ==
  LET removals == SortByIndexDesc(SelectSeq(diff.items, LAMBDA it : it.removed))
      additions == SelectSeq(diff.items, LAMBDA it : it.added)
      replacements == SelectSeq(diff.items, LAMBDA it : ~it.added /\ ~it.removed)
  IN  ReferenceReplacements(
        ReferenceInsertions(ApplyRemovals(arr, removals), additions),
        replacements)

\* C22: applyDiff of an array delta to an array equals the three-phase
\* reference (all removals by descending index, then all additions in
\* listed order, then all plain replacements), for every array and array
\* delta of the bounded sets.
ArrayApplyIsThreePhase ==
  (/\ phase = "delta"
   /\ outValue # NotCalled
   /\ IsArray(argOld)
   /\ outDiff.type = "array")
  => outValue = Arr(ThreePhaseApply(argOld.items, outDiff))

\* the delta's shape does not match the value's runtime shape
ShapeMismatch(value, delta) ==
  \/ delta.type = "array" /\ ~IsArray(value)
  \/ delta.type = "object" /\ value.t # "object"

\* C23: applyDiff with a delta whose shape does not match the value's
\* (array delta on a non-array, object delta on a non-object) returns the
\* value unchanged; with a value delta it returns delta.after.
MismatchReturnsOriginal ==
  (phase = "delta" /\ outValue # NotCalled)
  => /\ ShapeMismatch(argOld, outDiff) => outValue = argOld
     /\ outDiff.type = "value" => outValue = outDiff.after

\* C24: reverseDiff fails with 'Unknown diff type' for a delta whose
\* discriminant is none of value, object, array, and does not fail for a
\* delta made by createDiff.
ReverseFailsOnUnknownOnly ==
  outReverse # NotCalled
  => /\ outDiff.type \notin {"value", "object", "array"}
        => outReverse = UnknownDiffType
     /\ phase = "created" => outReverse # UnknownDiffType

\* C24: reverseDiff has been called on a createDiff delta that holds a child
\* delta, and on a delta with an unknown discriminant
ReversedNestedOrUnknown ==
  /\ outReverse # NotCalled
  /\ \/ /\ phase = "created"
        /\ outDiff.type = "object"
        /\ \E k \in DOMAIN outDiff.changed : outDiff.changed[k].type = "object"
     \/ phase = "delta" /\ outDiff.type = "patch"

\* C25: undo() with past empty and redo() with future empty change neither
\* stack, no atom, not the registry and not the suppression flag.
EmptyUndoRedoIsNoOp ==
  [][(\/ UndoEnter /\ historyStack.past = <<>>
      \/ RedoEnter /\ historyStack.future = <<>>)
     => UNCHANGED <<historyStack, baseAtom, atomRegistry,
                    isHistoryOperationInProgress, currentGroupOperation, pc>>]_vars

\* C25: undo() can be called with past empty while future holds an entry
UndoOnEmptyPast ==
  /\ pc = "idle"
  /\ historyStack.past = <<>>
  /\ historyStack.future # <<>>

\* diff is an object delta with more than ComplexObjectKeys changed keys or
\* an array delta with more than ComplexArrayItems items
OverThreshold(diff) ==
  \/ diff.type = "object" /\ Cardinality(DOMAIN diff.changed) > ComplexObjectKeys
  \/ diff.type = "array" /\ Len(diff.items) > ComplexArrayItems

\* C26: the entry a default-policy push records carries fullValue =
\* prevValue exactly when its delta is over the threshold; at exactly the
\* threshold, and for every value delta, it carries none.
ThresholdRule ==
  [][(pc = "idle" /\ writeCount' # writeCount)
     => LET entry == IF ~currentGroupOperation.isNull
                     THEN Last(currentGroupOperation'.entries)
                     ELSE Last(historyStack'.past)
        IN  DefaultDiffPolicy(entry.id)
            => entry.fullValue = IF OverThreshold(entry.diff)
                                 THEN baseAtom[entry.id] ELSE undefined]_vars

\* C26: an entry whose delta has exactly ComplexObjectKeys changed keys has
\* been recorded, without fullValue
ThresholdBoundaryRecorded ==
  \E j \in 1..Len(historyStack.past) :
    LET entry == historyStack.past[j]
    IN  /\ HasType(entry.diff)
        /\ entry.diff.type = "object"
        /\ Cardinality(DOMAIN entry.diff.changed) = ComplexObjectKeys
        /\ entry.fullValue = undefined

\* C27: when from some point on nothing but undo() is called, past
\* eventually is empty and stays so: no entry blocks the ones beneath it.
UndoAlwaysProgresses ==
  <>[][UndoEnter \/ UndoRestore]_vars => <>[](historyStack.past = <<>>)

\* C28: when an outer groupOperations call whose callback nested a group
\* returns, the group buffer is null and every entry recorded in the outer
\* callback, before, inside and after the inner group, is on past in order
\* (atoms with the default limit, under which nothing is evicted).
NestedGroupsLoseNothing ==
  [][(/\ GroupExit
      /\ groupDepth = 1
      /\ lastGroup.stage = "running"
      /\ lastGroup.nested
      /\ \A id \in AtomIds : options[id].historyLimit = 0)
     => /\ currentGroupOperation' = NoGroup
        /\ IsSuffix(lastGroup.entries, historyStack'.past)]_vars

====
